---- MODULE Spec2Model ----
(***************************************************************************)
(* Model of the MSPBots channel plugin's inbound WebSocket client          *)
(* (class MspbotsWSClient and monitorMspBotsProvider, monitor.ts) and of   *)
(* the frame handler handleMspBotsMessage (bot.ts).                        *)
(*                                                                         *)
(* The client object is the record icm.  The sockets it creates through    *)
(* the ws library are kept in icm.sock, one readyState per socket id; the  *)
(* armed Node timers are the sets icm.armedR (setTimeout handles of        *)
(* scheduleReconnect) and icm.armedP (setInterval handles of the open      *)
(* handler).  Every event handler of the source is one action.             *)
(***************************************************************************)
EXTENDS Integers, Sequences, FiniteSets, TLC

VARIABLES
    icm,       \* the MspbotsWSClient instance, its sockets and its timers
    started,   \* monitorMspBotsProvider has called wsClient.connect()
    stops,     \* number of calls of the returned handle's close()
    log,       \* frames received, frames sent and handler invocations, in order
    inflight,  \* handleMspBotsMessage invocations awaiting their dispatch
    attempt,   \* connect() attempts that reached new WebSocket(url), modulo AttemptMod
    last,      \* the event handled by the latest step
    sync,      \* one run of startConfigSync, with the configuration file it works on
    plugin     \* the plugin's register() and the runtime it captures

vars == <<icm, started, stops, log, inflight, attempt, last, sync, plugin>>

icmVars == <<icm, started, stops, log, inflight, attempt, last>>

----------------------------------------------------------------------------
(* Bounds *)

MaxSockets == 2

MaxTimers == 2

MaxLog == 4

MaxStops == 2

AttemptMod == 3

(* Program constants *)

ReconnectDelayMs == 5000

PingIntervalMs == 30000

NULL == 0

SockIds == 1..MaxSockets

TimerIds == 1..MaxTimers

(* readyState of a ws socket, split by how it got there:                   *)
(*   connecting      CONNECTING                                            *)
(*   open            OPEN                                                  *)
(*   connecting_err  handshake failed, 'error' emitted, 'close' pending    *)
(*   open_err        error on an open socket, 'close' pending              *)
(*   aborted         close() during CONNECTING, 'error' then 'close' come  *)
(*   closing         close() on an OPEN socket, closing handshake running  *)
(*   closed          'close' emitted                                       *)
SockStates ==
    {"none", "connecting", "open", "connecting_err", "open_err",
     "aborted", "closing", "closed"}

LiveStates == SockStates \ {"none", "closed"}

(* Inbound frames by what JSON.parse and the handlers make of them.        *)
(*   ping        {"type":"ping"}                                           *)
(*   connection  {"type":"connection", ...}                                *)
(*   app         an object with a non-empty data field                     *)
(*   nodata      an object with a missing or empty data field              *)
(*   falsy       valid JSON whose value is falsy but not null (0, false)   *)
(*   bad         text that is not JSON                                     *)
FrameKinds == {"ping", "connection", "app", "nodata", "falsy", "bad"}

Min(S) == CHOOSE x \in S : \A y \in S : x <= y

----------------------------------------------------------------------------
(* The ws library as the client uses it *)

\* WebSocket.close(): no-op when CLOSED, aborts the handshake when CONNECTING,
\* starts the closing handshake when OPEN.
wsClose(rs) ==
    CASE rs = "connecting" -> "aborted"
      [] rs = "open"       -> "closing"
      [] OTHER             -> rs

\* readyState === WebSocket.OPEN
IsOpen(st) == st.ws # NULL /\ st.sock[st.ws] = "open"

FreeSocks(st) == {s \in SockIds : st.sock[s] \in {"none", "closed"}}

FreeTimers(armed) == TimerIds \ armed

----------------------------------------------------------------------------
(* MspbotsWSClient *)

NewClient ==
    [ws             |-> NULL,
     isClosed       |-> FALSE,
     reconnectTimer |-> NULL,
     pingTimer      |-> NULL,
     armedR         |-> {},
     armedP         |-> {},
     reconnectDelay |-> 0,
     pingInterval   |-> 0,
     threw          |-> FALSE,
     errorListener  |-> FALSE,
     sock           |-> [s \in SockIds |-> "none"]]

\* monitorMspBotsProvider without its wsClient.on("error", ...) listener.
monitorListeners_noError(st) == st

\* monitorMspBotsProvider registers its "message" and "error" listeners on the
\* new client before it calls connect().
monitorListeners(st) == [st EXCEPT !.errorListener = TRUE]

\* scheduleReconnect without its setTimeout.
scheduleReconnect_noArm(st) ==
    IF st.isClosed THEN st
    ELSE [st EXCEPT !.armedR = @ \ {st.reconnectTimer},
                    !.armedP = @ \ {st.pingTimer}]

\* scheduleReconnect without clearTimeout(this.reconnectTimer).
scheduleReconnect_noCancel(st) ==
    IF st.isClosed THEN st
    ELSE LET t == Min(FreeTimers(st.armedR))
         IN  [st EXCEPT !.armedR = @ \cup {t},
                        !.armedP = @ \ {st.pingTimer},
                        !.reconnectTimer = t,
                        !.reconnectDelay = ReconnectDelayMs]

\* scheduleReconnect without clearInterval(this.pingTimer).
scheduleReconnect_keepsPing(st) ==
    IF st.isClosed THEN st
    ELSE LET r == st.armedR \ {st.reconnectTimer}
             t == Min(FreeTimers(r))
         IN  [st EXCEPT !.armedR = r \cup {t},
                        !.reconnectTimer = t,
                        !.reconnectDelay = ReconnectDelayMs]

scheduleReconnect(st) ==
    IF st.isClosed THEN st
    ELSE LET r == st.armedR \ {st.reconnectTimer}
             t == Min(FreeTimers(r))
         IN  [st EXCEPT !.armedR = r \cup {t},
                        !.armedP = @ \ {st.pingTimer},
                        !.reconnectTimer = t,
                        !.reconnectDelay = ReconnectDelayMs]

connect(st, throws) ==
    IF st.isClosed THEN st
    ELSE IF throws THEN scheduleReconnect(st)
    ELSE LET s == Min(FreeSocks(st))
         IN  [st EXCEPT !.ws = s, !.sock[s] = "connecting"]

\* close() without clearTimeout(this.reconnectTimer).
close_keepsTimer(st) ==
    [st EXCEPT !.isClosed = TRUE,
               !.armedP = @ \ {st.pingTimer},
               !.sock = IF st.ws # NULL
                        THEN [@ EXCEPT ![st.ws] = wsClose(st.sock[st.ws])]
                        ELSE @,
               !.ws = NULL]

\* close() without this.isClosed = true.
close_noFlag(st) ==
    [st EXCEPT !.armedR = @ \ {st.reconnectTimer},
               !.armedP = @ \ {st.pingTimer},
               !.sock = IF st.ws # NULL
                        THEN [@ EXCEPT ![st.ws] = wsClose(st.sock[st.ws])]
                        ELSE @,
               !.ws = NULL]

\* close() calling this.ws.close() without the if (this.ws) guard.
close_noNullCheck(st) ==
    IF st.ws = NULL
    THEN [st EXCEPT !.isClosed = TRUE,
                    !.armedR = @ \ {st.reconnectTimer},
                    !.armedP = @ \ {st.pingTimer},
                    !.threw = TRUE]
    ELSE [st EXCEPT !.isClosed = TRUE,
                    !.armedR = @ \ {st.reconnectTimer},
                    !.armedP = @ \ {st.pingTimer},
                    !.sock = [@ EXCEPT ![st.ws] = wsClose(st.sock[st.ws])],
                    !.ws = NULL]

close(st) ==
    [st EXCEPT !.isClosed = TRUE,
               !.armedR = @ \ {st.reconnectTimer},
               !.armedP = @ \ {st.pingTimer},
               !.sock = IF st.ws # NULL
                        THEN [@ EXCEPT ![st.ws] = wsClose(st.sock[st.ws])]
                        ELSE @,
               !.ws = NULL]

\* ws.on("open"): emit("open"), then arm the heartbeat interval.
onOpen(st) ==
    LET t == Min(FreeTimers(st.armedP))
    IN  [st EXCEPT !.armedP = @ \cup {t},
                   !.pingTimer = t,
                   !.pingInterval = PingIntervalMs]

\* An error handler that also calls scheduleReconnect().
onError_reconnects(st) == scheduleReconnect(st)

\* ws.on("error"): log and re-emit on the client.  EventEmitter.emit("error")
\* throws when no listener is registered; the monitor's listener only logs.
onError(st) ==
    IF st.errorListener THEN st ELSE [st EXCEPT !.threw = TRUE]

\* ws.on("close"): scheduleReconnect().
onClose(st) == scheduleReconnect(st)

\* A frame put on the wire by ws.send: its type and the number of the inbound
\* frame it answers (0 for a heartbeat of the interval timer).
Send(f, n) == [k |-> "send", f |-> f, n |-> n]

\* The frames sendPing() puts on the wire.
sendPing(st) ==
    IF IsOpen(st) THEN <<Send("ping", 0)>> ELSE <<>>

\* A parse that never fails: the catch block is never entered.
Parses_always(f) == TRUE

\* JSON.parse(text) followed by the read of event.type: TRUE when neither throws.
Parses(f) == f # "bad"

\* The frames the message handler sends in reply to inbound frame number n, f:
\* this.ws?.send(JSON.stringify({ type: "pong" })) for a heartbeat request.
heartbeatReply_none(st, f, n) == <<>>

heartbeatReply_ping(st, f, n) ==
    IF Parses(f) /\ f = "ping" /\ st.ws # NULL
    THEN <<Send("ping", n)>>
    ELSE <<>>

heartbeatReply(st, f, n) ==
    IF Parses(f) /\ f = "ping" /\ st.ws # NULL
    THEN <<Send("pong", n)>>
    ELSE <<>>

\* A catch block that gives the connection up.
onParseError_reconnects(st) == scheduleReconnect(st)

\* The catch block of the message handler: console.error only.
onParseError(st) == st

\* Whether the message handler re-emits frame f as the client's "message" event.
Emits(f) == Parses(f) /\ f # "ping"

----------------------------------------------------------------------------
(* monitorMspBotsProvider's "message" listener and handleMspBotsMessage *)

\* A listener without its data.type === 'connection' filter.
Invokes_noFilter(f) == Emits(f) /\ f # "falsy"

\* The listener calls handleMspBotsMessage for truthy data that is no control frame.
Invokes(f) == Emits(f) /\ f # "falsy" /\ f # "connection"

\* A handler without the early return on empty data.
Dispatches_always(f) == TRUE

\* handleMspBotsMessage returns early on a missing or empty data field; otherwise
\* it runs up to the awaited dispatchReplyFromConfig.
Dispatches(f) == f # "nodata"

----------------------------------------------------------------------------
(* config-sync.ts: JSON values *)

(* Object keys by their place in the order of Object.keys(obj).sort():     *)
(* "a" < "b" < "meta" < "wizard".                                          *)
KA == 1

KB == 2

KMeta == 3

KWizard == 4

TopKeys == {KA, KB, KMeta, KWizard}

Scalars == {1, 2}

\* A JSON object is the sequence of its entries in insertion order; an entry
\* holds a number or a nested object.
Leaf(k, n) == [k |-> k, isObj |-> FALSE, n |-> n, o |-> <<>>]

Node(k, o) == [k |-> k, isObj |-> TRUE, n |-> 0, o |-> o]

\* {"a":1,"b":2} and {"b":2,"a":1}
InnerObjs == {<<Leaf(KA, 1), Leaf(KB, 2)>>, <<Leaf(KB, 2), Leaf(KA, 1)>>}

TopEntries ==
    {Leaf(k, n) : k \in TopKeys, n \in Scalars} \cup {Node(KA, o) : o \in InnerObjs}

\* The configuration objects of the model: at most two top-level fields.
Configs ==
    {<<>>} \cup {<<e>> : e \in TopEntries}
           \cup {p \in TopEntries \X TopEntries : p[1].k # p[2].k}

\* localConfig: null or an object.
Null == [isNull |-> TRUE, v |-> <<>>]

Some(c) == [isNull |-> FALSE, v |-> c]

\* A path of the file system: absent, or a file with its text (a token sequence).
Absent == [exists |-> FALSE, text |-> <<>>]

File(t) == [exists |-> TRUE, text |-> t]

RemoveAt(q, i) == SubSeq(q, 1, i - 1) \o SubSeq(q, i + 1, Len(q))

\* JSON.stringify: "{", then per entry its key and its value, then "}".
\* Tokens: -1 "{", -2 "}", 10 + k the key k, 100 + n the number n.
RECURSIVE Stringify(_)
Stringify(obj) ==
    LET RECURSIVE Entries(_)
        Entries(q) ==
            IF q = <<>> THEN <<>>
            ELSE <<10 + q[1].k>>
                   \o (IF q[1].isObj THEN Stringify(q[1].o) ELSE <<100 + q[1].n>>)
                   \o Entries(Tail(q))
    IN  <<-1>> \o Entries(obj) \o <<-2>>

\* JSON.stringify(config, null, 2): token 0 is a line break with its indent,
\* put before every key and before the brace that closes a non-empty object.
RECURSIVE StringifyIndent(_)
StringifyIndent(obj) ==
    LET RECURSIVE Entries(_)
        Entries(q) ==
            IF q = <<>> THEN <<>>
            ELSE <<0, 10 + q[1].k>>
                   \o (IF q[1].isObj THEN StringifyIndent(q[1].o) ELSE <<100 + q[1].n>>)
                   \o Entries(Tail(q))
    IN  IF obj = <<>> THEN <<-1, -2>> ELSE <<-1>> \o Entries(obj) \o <<0, -2>>

\* JSON.parse skips white space between tokens.
SkipSpace(t) == SelectSeq(t, LAMBDA x : x # 0)

\* JSON.parse: the object whose text this is; a SyntaxError for any other text.
Parseable(t) == \E c \in Configs : Stringify(c) = SkipSpace(t)

Parse(t) == CHOOSE c \in Configs : Stringify(c) = SkipSpace(t)

\* crypto md5 hex digest, taken as collision-free.
calculateMd5(content) == <<"md5", content>>

\* sortObjectKeys without the recursion into nested objects.
RECURSIVE sortObjectKeys_shallow(_)
sortObjectKeys_shallow(obj) ==
    IF obj = <<>> THEN <<>>
    ELSE LET i == CHOOSE i \in 1..Len(obj) : \A j \in 1..Len(obj) : obj[i].k <= obj[j].k
         IN  <<obj[i]>> \o sortObjectKeys_shallow(RemoveAt(obj, i))

RECURSIVE sortObjectKeys(_)
sortObjectKeys(obj) ==
    IF obj = <<>> THEN <<>>
    ELSE LET i == CHOOSE i \in 1..Len(obj) : \A j \in 1..Len(obj) : obj[i].k <= obj[j].k
             e == obj[i]
         IN  <<IF e.isObj THEN [e EXCEPT !.o = sortObjectKeys(e.o)] ELSE e>>
                \o sortObjectKeys(RemoveAt(obj, i))

\* removeIgnoredFields that strips nothing.
removeIgnoredFields_none(config) == config

\* const { meta, wizard, ...rest } = config
removeIgnoredFields(config) ==
    SelectSeq(config, LAMBDA e : e.k \notin {KMeta, KWizard})

\* configsAreEqual that finds every pair equal.
configsAreEqual_always(localConfig, remoteConfig) == TRUE

\* A comparison that finds every remote configuration different.
configsAreEqual_never(localConfig, remoteConfig) == FALSE

configsAreEqual(localConfig, remoteConfig) ==
    IF localConfig.isNull THEN FALSE
    ELSE LET sortedLocal == sortObjectKeys(removeIgnoredFields(localConfig.v))
             sortedRemote == sortObjectKeys(removeIgnoredFields(remoteConfig))
         IN  calculateMd5(Stringify(sortedLocal)) = calculateMd5(Stringify(sortedRemote))

\* readLocalConfig that answers a missing or unreadable file with {}.
readLocalConfig_emptyObject(f) ==
    IF ~f.exists THEN Some(<<>>)
    ELSE IF Parseable(f.text) THEN Some(Parse(f.text))
    ELSE Some(<<>>)

\* readLocalConfig: null for a missing file and for text JSON.parse rejects.
readLocalConfig(f) ==
    IF ~f.exists THEN Null
    ELSE IF Parseable(f.text) THEN Some(Parse(f.text))
    ELSE Null

----------------------------------------------------------------------------
(* config-sync.ts: startConfigSync *)

DefaultMaxRetries == 10

\* localConfigPath and the two paths writeLocalConfig touches.
ConfigPath == <<"openclaw.json">>

Paths == {ConfigPath, ConfigPath \o <<".tmp">>}

\* A temp path that is the target path itself.
tempPath_inPlace(configPath) == configPath

\* const tempPath = configPath + '.tmp'
tempPath(configPath) == configPath \o <<".tmp">>

\* The fields the configuration files of the model are built from.
LocalEntries ==
    {Leaf(KA, 1), Leaf(KB, 2), Leaf(KMeta, 1), Leaf(KWizard, 1),
     Node(KA, <<Leaf(KB, 2), Leaf(KA, 1)>>)}

LocalConfigs ==
    {<<>>} \cup {<<e>> : e \in LocalEntries}
           \cup {p \in LocalEntries \X LocalEntries : p[1].k # p[2].k}

\* The file at localConfigPath when startConfigSync is called: missing, cut
\* short ("{"), or a configuration as writeLocalConfig leaves it.
InitialFiles ==
    {Absent, File(<<-1>>)} \cup {File(StringifyIndent(c)) : c \in LocalConfigs}

\* What one fetchConfigFromApi call meets.
\*   "neterr"    fetch() or response.json() throws     -> null
\*   "http"      response.ok is false                  -> null
\*   "fail"      body with success: false
\*   "noworker"  success: true without worker
\*   "noconfigs" success: true, worker without configs
\*   "ok"        success: true with worker.configs = c (c may be {})
\*   "root"      success: true with the fields of c beside it, no worker
NullKinds == {"neterr", "http"}

AppFailKinds == {"fail", "noworker", "noconfigs"}

Responses ==
    {[kind |-> k, c |-> <<>>] : k \in NullKinds \cup AppFailKinds}
        \cup {[kind |-> "ok", c |-> c] : c \in Configs}
        \cup {[kind |-> "root", c |-> c] : c \in Configs \ {<<>>}}

\* What the response was, "empty" for worker.configs = {}.
Kind(r) == IF r.kind = "ok" /\ r.c = <<>> THEN "empty" ELSE r.kind

\* The loop body without the check of lines 311-316.
IsRetry_emptyAccepted(r) == r.kind \in AppFailKinds \cup {"root"}

\* Lines 291, 303 and 312: !response.success, !worker || !worker.configs (a
\* response with the fields at its root has no worker), and
\* Object.keys(configData).length === 0.
IsRetry(r) == r.kind \in AppFailKinds \cup {"root"} \/ r.c = <<>>

\* startConfigSync before the call, with the file system it will meet.
NewSync(f) ==
    [pc |-> "idle",
     fs |-> [p \in Paths |-> IF p = ConfigPath THEN f ELSE Absent],
     initFile |-> f,
     localConfig |-> Null,
     supplied |-> FALSE,
     maxRetries |-> 0,
     retryCount |-> 0,
     fetches |-> 0,
     answered |-> 0,
     sleeps |-> 0,
     remote |-> Null,
     resp |-> "none",
     netOnly |-> TRUE,
     restartAfterSync |-> TRUE,
     restartFailed |-> FALSE,
     fsFailed |-> FALSE,
     writes |-> 0,
     restarts |-> 0,
     completes |-> 0,
     errors |-> 0,
     completeArg |-> Null,
     outcome |-> "none"]

\* Lines 249-273: the defaults of the options, then readLocalConfig.
startConfigSync(st, supplied, maxRetries) ==
    [st EXCEPT !.pc = "loop",
               !.supplied = supplied,
               !.maxRetries = IF supplied THEN maxRetries ELSE DefaultMaxRetries,
               !.localConfig = readLocalConfig(st.fs[ConfigPath])]

\* The end of the loop as the earlier revision of the file has it:
\* onSyncError, then throw.
loopExit_throws(st) ==
    [st EXCEPT !.errors = @ + 1, !.outcome = "ExhaustedRetries", !.pc = "thrown"]

\* A loop exit that returns without calling onSyncError.
loopExit_silent(st) ==
    [st EXCEPT !.outcome = "ExhaustedRetries", !.pc = "returned"]

\* Lines 345-351: onSyncError?.(error), no throw.
loopExit(st) ==
    [st EXCEPT !.errors = @ + 1, !.outcome = "ExhaustedRetries", !.pc = "returned"]

\* A loop test that gives up with the last attempt unused.
loopTest_early(st) ==
    IF st.retryCount + 1 < st.maxRetries
    THEN [st EXCEPT !.retryCount = @ + 1, !.fetches = @ + 1, !.pc = "fetch"]
    ELSE loopExit(st)

\* A loop test that lets one more iteration in: retryCount <= maxRetries.
loopTest_offByOne(st) ==
    IF st.retryCount <= st.maxRetries
    THEN [st EXCEPT !.retryCount = @ + 1, !.fetches = @ + 1, !.pc = "fetch"]
    ELSE loopExit(st)

\* Lines 276-281: the loop test, retryCount++, the fetch is issued.
loopTest(st) ==
    IF st.retryCount < st.maxRetries
    THEN [st EXCEPT !.retryCount = @ + 1, !.fetches = @ + 1, !.pc = "fetch"]
    ELSE loopExit(st)

\* A retry that goes straight back to the loop test.
retry_noSleep(st) == [st EXCEPT !.pc = "loop"]

\* await sleep(pollIntervalMs); continue
retry(st) == [st EXCEPT !.pc = "sleep"]

\* The timeout of sleep() fires and the loop goes on.
wake(st) == [st EXCEPT !.sleeps = @ + 1, !.pc = "loop"]

\* Lines 284-342 up to the first await or file-system call.
onResponse(st, r) ==
    LET st1 == [st EXCEPT !.answered = @ + 1, !.resp = Kind(r)]
    IN  IF r.kind \in NullKinds THEN retry(st1)
        ELSE IF IsRetry(r) THEN retry([st1 EXCEPT !.netOnly = FALSE])
        ELSE IF configsAreEqual(st.localConfig, r.c)
        THEN [st1 EXCEPT !.remote = Some(r.c),
                         !.netOnly = FALSE,
                         !.completes = @ + 1,
                         !.completeArg = st.localConfig,
                         !.outcome = "UpToDate",
                         !.pc = "returned"]
        ELSE [st1 EXCEPT !.remote = Some(r.c),
                         !.netOnly = FALSE,
                         !.pc = "writeOpen"]

\* The content a merge would write: the remote fields, then the local fields
\* the remote object does not have.
Merged(localConfig, remoteConfig) ==
    remoteConfig \o SelectSeq(localConfig.v,
                              LAMBDA e : \A i \in 1..Len(remoteConfig) : remoteConfig[i].k # e.k)

\* A content that keeps the local-only fields.
content_merged(st) == StringifyIndent(Merged(st.localConfig, st.remote.v))

\* const content = JSON.stringify(config, null, 2), config being the remote
\* object as received.
content(st) == StringifyIndent(st.remote.v)

\* fs.writeFileSync(tempPath, content) in the steps a reader of the file
\* system can tell apart: the file is created or truncated, a first part of
\* the content is in it, all of it is.
writeStep(st) ==
    LET tmp == tempPath(ConfigPath)
    IN  CASE st.pc = "writeOpen" ->
               [st EXCEPT !.fs[tmp] = File(<<>>), !.pc = "writePart"]
          [] st.pc = "writePart" ->
               [st EXCEPT !.fs[tmp] = File(SubSeq(content(st), 1, Len(content(st)) - 1)),
                          !.pc = "writeRest"]
          [] OTHER ->
               [st EXCEPT !.fs[tmp] = File(content(st)), !.pc = "rename"]

\* fs.renameSync(tempPath, configPath); renaming a path to itself changes nothing.
renameSync(fs, from, to) ==
    IF from = to THEN fs
    ELSE [fs EXCEPT ![to] = fs[from], ![from] = Absent]

\* Lines 338-341: onSyncComplete?.(configData); return.
notifyUpdated(st) ==
    [st EXCEPT !.completes = @ + 1,
               !.completeArg = st.remote,
               !.outcome = "Updated",
               !.pc = "returned"]

\* A run that restarts whatever restartAfterSync says.
afterRename_alwaysRestarts(st, restartAfterSync) ==
    [st EXCEPT !.fs = renameSync(st.fs, tempPath(ConfigPath), ConfigPath),
               !.writes = @ + 1,
               !.restartAfterSync = restartAfterSync,
               !.pc = "restarting"]

\* Lines 124-126 and 331-336: the rename ends writeLocalConfig; with
\* restartAfterSync the restart is awaited, without it the run ends at once.
afterRename(st, restartAfterSync) ==
    LET st1 == [st EXCEPT !.fs = renameSync(st.fs, tempPath(ConfigPath), ConfigPath),
                          !.writes = @ + 1,
                          !.restartAfterSync = restartAfterSync]
    IN  IF restartAfterSync THEN [st1 EXCEPT !.pc = "restarting"]
        ELSE notifyUpdated(st1)

\* A writeLocalConfig whose catch only logs: the run goes on to its end.
writeFailed_swallowed(st) == notifyUpdated([st EXCEPT !.fsFailed = TRUE])

\* Lines 127-130: the catch of writeLocalConfig logs and rethrows; nothing in
\* startConfigSync catches it.
writeFailed(st) == [st EXCEPT !.fsFailed = TRUE, !.pc = "thrown"]

\* A restartGateway whose catch rethrows.
afterRestart_throws(st, ok) ==
    IF ok THEN notifyUpdated([st EXCEPT !.restarts = @ + 1])
    ELSE [st EXCEPT !.restarts = @ + 1, !.restartFailed = TRUE, !.pc = "thrown"]

\* Lines 224-239 and 338-341: restartGateway swallows the failure of its
\* command; onSyncComplete?.(configData) follows either way.
afterRestart(st, ok) ==
    notifyUpdated([st EXCEPT !.restarts = @ + 1, !.restartFailed = ~ok])

WritePcs == {"writeOpen", "writePart", "writeRest"}

----------------------------------------------------------------------------
(* index.ts: the plugin's register() *)

\* CONFIG_SYNC_OPTIONS.maxRetries
OptionsMaxRetries == 10

\* The plugin module is loaded: register() not yet called, runtime.ts holds
\* no runtime, the channel is not registered.
NewPlugin == [pc |-> "loaded", runtime |-> FALSE, channel |-> FALSE]

\* A register() that does not wait for the promise of startConfigSync.
syncSettled_notAwaited(st) == st.pc # "idle"

\* await startConfigSync(...) inside try/catch: register() goes on when the
\* promise is fulfilled and when it is rejected.
syncSettled(st) == st.pc \in {"returned", "thrown"}

\* A register() that registers the channel without capturing the runtime.
registered_noRuntime(p) == [p EXCEPT !.pc = "registered", !.channel = TRUE]

\* setMspBotsRuntime(api.runtime); api.registerChannel({ plugin: mspBotsPlugin })
registered(p) == [p EXCEPT !.pc = "registered", !.runtime = TRUE, !.channel = TRUE]

\* runtime.ts, getMspBotsRuntime(): TRUE when it returns the runtime, FALSE when
\* it throws "MSPBots runtime not initialized".
getMspBotsRuntime(p) == p.runtime

\* A register() without the try/catch around the awaited startConfigSync: a
\* rejected promise ends register() there.
afterSync_noCatch(p, st) ==
    IF st.pc = "thrown" THEN [p EXCEPT !.pc = "threw"] ELSE registered(p)

\* Lines 159-168: the catch only logs; runtime and channel follow either way.
afterSync(p, st) == registered(p)

----------------------------------------------------------------------------
(* Helpers of the actions *)

Ev(e, s) == [ev |-> e, s |-> s]

RecvCount == Cardinality({i \in 1..Len(log) : log[i].k = "recv"})

\* Socket s is the client's current socket, OPEN, and the client is not closed.
Connected(st, s) == ~st.isClosed /\ st.ws = s /\ st.sock[s] = "open"

Recv(f, n, c) == [k |-> "recv", f |-> f, n |-> n, c |-> c]

Fwd(f, n) == [k |-> "fwd", f |-> f, n |-> n]

\* Room for one more timer handle and one more socket.
CanArmR == FreeTimers(icm.armedR) # {}

CanArmP == FreeTimers(icm.armedP) # {}

CanCreate == FreeSocks(icm) # {}

Bump(st, throws) ==
    IF st.isClosed \/ throws THEN attempt ELSE (attempt + 1) % AttemptMod

----------------------------------------------------------------------------
(* Initial state: the client is constructed, its listeners are registered *)

Init ==
    /\ icm = monitorListeners(NewClient)
    /\ started = FALSE
    /\ stops = 0
    /\ log = <<>>
    /\ inflight = {}
    /\ attempt = 0
    /\ last = Ev("init", NULL)
    /\ sync = NewSync(Absent)
    /\ plugin = registered(NewPlugin)

----------------------------------------------------------------------------
(* Actions *)

\* monitorMspBotsProvider: wsClient.connect(), once.
Start ==
    /\ ~started
    /\ CanArmR /\ CanCreate
    /\ \E throws \in BOOLEAN :
          /\ icm' = connect(icm, throws)
          /\ attempt' = Bump(icm, throws)
    /\ started' = TRUE
    /\ last' = Ev("start", NULL)
    /\ UNCHANGED <<stops, log, inflight, sync, plugin>>

\* The handle's close(): wsClient.close().
Stop ==
    /\ started
    /\ stops < MaxStops
    /\ icm' = close(icm)
    /\ stops' = stops + 1
    /\ last' = Ev("stop", NULL)
    /\ UNCHANGED <<started, log, inflight, attempt, sync, plugin>>

\* The handshake of socket s completes: 'open'.
SocketOpen(s) ==
    /\ icm.sock[s] = "connecting"
    /\ CanArmP
    /\ icm' = onOpen([icm EXCEPT !.sock[s] = "open"])
    /\ last' = Ev("open", s)
    /\ UNCHANGED <<started, stops, log, inflight, attempt, sync, plugin>>

\* Socket s reports an error: 'error'.  ws emits 'close' for it afterwards.
SocketError(s) ==
    /\ icm.sock[s] \in {"connecting", "open", "aborted", "closing"}
    /\ CanArmR
    /\ icm' = onError([icm EXCEPT !.sock[s] =
                          IF icm.sock[s] \in {"connecting", "aborted"}
                          THEN "connecting_err" ELSE "open_err"])
    /\ last' = Ev("error", s)
    /\ UNCHANGED <<started, stops, log, inflight, attempt, sync, plugin>>

\* Socket s is closed: 'close'.  A failed handshake always reports 'error' first.
SocketClose(s) ==
    /\ icm.sock[s] \in {"open", "closing", "connecting_err", "open_err"}
    /\ CanArmR
    /\ icm' = onClose([icm EXCEPT !.sock[s] = "closed"])
    /\ last' = Ev("close", s)
    /\ UNCHANGED <<started, stops, log, inflight, attempt, sync, plugin>>

\* The peer's frame f arrives on socket s: 'message'.  A socket delivers frames
\* while OPEN and, after a local close(), until the closing handshake ends.
SocketMessage(s, f) ==
    /\ icm.sock[s] \in {"open", "closing"}
    /\ Len(log) + 2 <= MaxLog
    /\ CanArmR
    /\ LET n == RecvCount + 1
           invoked == Invokes(f)
       IN  /\ log' = log \o <<Recv(f, n, Connected(icm, s))>> \o heartbeatReply(icm, f, n)
                         \o (IF invoked THEN <<Fwd(f, n)>> ELSE <<>>)
           /\ inflight' = IF invoked /\ Dispatches(f) /\ getMspBotsRuntime(plugin)
                          THEN inflight \cup {n} ELSE inflight
    /\ icm' = IF Parses(f) THEN icm ELSE onParseError(icm)
    /\ last' = Ev("message", s)
    /\ UNCHANGED <<started, stops, attempt, sync, plugin>>

\* The awaited dispatchReplyFromConfig of invocation n settles.
DispatchDone(n) ==
    /\ n \in inflight
    /\ inflight' = inflight \ {n}
    /\ last' = Ev("done", NULL)
    /\ UNCHANGED <<icm, started, stops, log, attempt, sync, plugin>>

\* The reconnect timeout t fires: connect().
ReconnectFire(t) ==
    /\ t \in icm.armedR
    /\ CanCreate
    /\ LET st == [icm EXCEPT !.armedR = @ \ {t}]
       IN  \E throws \in BOOLEAN :
              /\ icm' = connect(st, throws)
              /\ attempt' = Bump(st, throws)
    /\ last' = Ev("timer", NULL)
    /\ UNCHANGED <<started, stops, log, inflight, sync, plugin>>

\* The heartbeat interval t fires: sendPing().
PingFire(t) ==
    /\ t \in icm.armedP
    /\ Len(log) + 1 <= MaxLog
    /\ log' = log \o sendPing(icm)
    /\ last' = Ev("ping", NULL)
    /\ UNCHANGED <<icm, started, stops, inflight, attempt, sync, plugin>>

Next ==
    \/ Start
    \/ Stop
    \/ \E s \in SockIds : SocketOpen(s)
    \/ \E s \in SockIds : SocketError(s)
    \/ \E s \in SockIds : SocketClose(s)
    \/ \E s \in SockIds, f \in FrameKinds : SocketMessage(s, f)
    \/ \E n \in 1..MaxLog : DispatchDone(n)
    \/ \E t \in TimerIds : ReconnectFire(t)
    \/ \E t \in TimerIds : PingFire(t)

Spec == Init /\ [][Next]_vars

\* Node fires an armed timeout: the reconnect timer is weakly fair.
LiveSpec == Spec /\ WF_vars(\E t \in TimerIds : ReconnectFire(t))

----------------------------------------------------------------------------
(* Derived state *)

Live == {s \in SockIds : icm.sock[s] \in LiveStates}

\* The connection state of the specification, read off the client's fields.
ConnectionState ==
    CASE icm.isClosed -> "Closed"
      [] ~icm.isClosed /\ icm.armedR # {} -> "ReconnectPending"
      [] ~icm.isClosed /\ icm.armedR = {} /\ icm.ws # NULL
            /\ icm.sock[icm.ws] \in {"connecting", "connecting_err"} -> "Connecting"
      [] ~icm.isClosed /\ icm.armedR = {} /\ icm.ws # NULL
            /\ icm.sock[icm.ws] \in {"open", "open_err"} -> "Connected"
      [] OTHER -> "Disconnected"

TypeOK ==
    /\ icm.ws \in SockIds \cup {NULL}
    /\ icm.isClosed \in BOOLEAN
    /\ icm.armedR \subseteq TimerIds
    /\ icm.armedP \subseteq TimerIds
    /\ \A s \in SockIds : icm.sock[s] \in SockStates
    /\ started \in BOOLEAN
    /\ stops \in 0..MaxStops
    /\ Len(log) <= MaxLog
    /\ attempt \in 0..(AttemptMod - 1)

----------------------------------------------------------------------------
(* The configuration sync run: one call of startConfigSync *)

MaxRetries == 2

SyncInit ==
    /\ icm = monitorListeners(NewClient)
    /\ started = FALSE
    /\ stops = 0
    /\ log = <<>>
    /\ inflight = {}
    /\ attempt = 0
    /\ last = Ev("init", NULL)
    /\ sync \in {NewSync(f) : f \in InitialFiles}
    /\ plugin = NewPlugin

\* startConfigSync(options) is called, with or without maxRetries.
SyncStart(supplied, m) ==
    /\ sync.pc = "idle"
    /\ sync' = startConfigSync(sync, supplied, m)
    /\ UNCHANGED <<icmVars, plugin>>

\* while (retryCount < maxRetries)
SyncLoop ==
    /\ sync.pc = "loop"
    /\ sync' = loopTest(sync)
    /\ UNCHANGED <<icmVars, plugin>>

\* The awaited fetchConfigFromApi settles.
SyncFetch(r) ==
    /\ sync.pc = "fetch"
    /\ sync' = onResponse(sync, r)
    /\ UNCHANGED <<icmVars, plugin>>

\* await sleep(pollIntervalMs) ends; continue.
SyncWake ==
    /\ sync.pc = "sleep"
    /\ sync' = wake(sync)
    /\ UNCHANGED <<icmVars, plugin>>

\* One step of fs.writeFileSync(tempPath, content).
SyncWrite ==
    /\ sync.pc \in WritePcs
    /\ sync' = writeStep(sync)
    /\ UNCHANGED <<icmVars, plugin>>

\* fs.renameSync succeeds.
SyncRename(restartAfterSync) ==
    /\ sync.pc = "rename"
    /\ sync' = afterRename(sync, restartAfterSync)
    /\ UNCHANGED <<icmVars, plugin>>

\* writeFileSync or renameSync throws.
SyncWriteFail ==
    /\ sync.pc \in WritePcs \cup {"rename"}
    /\ sync' = writeFailed(sync)
    /\ UNCHANGED <<icmVars, plugin>>

\* The process dies inside writeLocalConfig.
SyncCrash ==
    /\ sync.pc \in WritePcs \cup {"rename"}
    /\ sync' = [sync EXCEPT !.pc = "crashed"]
    /\ UNCHANGED <<icmVars, plugin>>

\* 'openclaw gateway restart' ends, with or without an error.
SyncRestart(ok) ==
    /\ sync.pc = "restarting"
    /\ sync' = afterRestart(sync, ok)
    /\ UNCHANGED <<icmVars, plugin>>

SyncNext ==
    \/ \E supplied \in BOOLEAN, m \in 1..MaxRetries : SyncStart(supplied, m)
    \/ SyncLoop
    \/ \E r \in Responses : SyncFetch(r)
    \/ SyncWake
    \/ SyncWrite
    \/ \E b \in BOOLEAN : SyncRename(b)
    \/ SyncWriteFail
    \/ SyncCrash
    \/ \E ok \in BOOLEAN : SyncRestart(ok)

SyncSpec == SyncInit /\ [][SyncNext]_vars

\* The steps the run takes by itself once called: every awaited promise
\* (fetch, sleep, the restart command) settles and synchronous code runs on.
SyncRun ==
    \/ SyncLoop
    \/ \E r \in Responses : SyncFetch(r)
    \/ SyncWake
    \/ SyncWrite
    \/ \E b \in BOOLEAN : SyncRename(b)
    \/ SyncWriteFail
    \/ \E ok \in BOOLEAN : SyncRestart(ok)

SyncLiveSpec == SyncSpec /\ WF_vars(SyncRun)

SyncTypeOK ==
    /\ sync.pc \in {"idle", "loop", "fetch", "sleep", "rename", "restarting",
                    "returned", "thrown", "crashed"} \cup WritePcs
    /\ sync.retryCount \in 0..sync.maxRetries
    /\ sync.outcome \in {"none", "UpToDate", "Updated", "ExhaustedRetries"}
    /\ sync.writes \in 0..1

----------------------------------------------------------------------------
(* Plugin start-up: register() runs the configuration sync, then registers *)
(* the channel, whose account the gateway then starts                      *)

\* The local files start-up is checked over: none, and {"a":1}.
RegFiles == {Absent, File(StringifyIndent(<<Leaf(KA, 1)>>))}

RegInit ==
    /\ icm = monitorListeners(NewClient)
    /\ started = FALSE
    /\ stops = 0
    /\ log = <<>>
    /\ inflight = {}
    /\ attempt = 0
    /\ last = Ev("init", NULL)
    /\ sync \in {NewSync(f) : f \in RegFiles}
    /\ plugin = NewPlugin

\* The host calls register(api): startConfigSync is called with
\* CONFIG_SYNC_OPTIONS.
Register ==
    /\ plugin.pc = "loaded"
    /\ sync.pc = "idle"
    /\ sync' = startConfigSync(sync, TRUE, OptionsMaxRetries)
    /\ plugin' = [plugin EXCEPT !.pc = "syncing"]
    /\ UNCHANGED icmVars

\* The awaited startConfigSync has settled; the runtime is captured and the
\* channel registered.
RegisterDone ==
    /\ plugin.pc = "syncing"
    /\ syncSettled(sync)
    /\ plugin' = afterSync(plugin, sync)
    /\ UNCHANGED <<icmVars, sync>>

\* The gateway starts the account of the registered channel:
\* startAccount returns monitorMspBotsProvider(ctx).
StartAccount ==
    /\ plugin.channel
    /\ Start

RegNext ==
    \/ Register
    \/ SyncRun
    \/ SyncCrash
    \/ RegisterDone
    \/ StartAccount

RegSpec == RegInit /\ [][RegNext]_vars

\* register() runs on once the promise it awaits has settled.
RegLiveSpec == RegSpec /\ WF_vars(RegisterDone)

\* Start-up followed by the frames of the first connection: no local file,
\* register(), the account's start, the socket's open and its frames.
BootInit ==
    /\ icm = monitorListeners(NewClient)
    /\ started = FALSE
    /\ stops = 0
    /\ log = <<>>
    /\ inflight = {}
    /\ attempt = 0
    /\ last = Ev("init", NULL)
    /\ sync = NewSync(Absent)
    /\ plugin = NewPlugin

BootNext ==
    \/ RegNext
    \/ \E s \in SockIds : SocketOpen(s)
    \/ \E s \in SockIds, f \in FrameKinds : SocketMessage(s, f)
    \/ \E n \in 1..MaxLog : DispatchDone(n)

BootSpec == BootInit /\ [][BootNext]_vars

----------------------------------------------------------------------------
(* Properties of the connection manager *)

Idx == 1..Len(log)

FwdCount == Cardinality({i \in Idx : log[i].k = "fwd"})

\* The client's own fields and timers (not the sockets' readyState).
ClientFields(st) ==
    <<st.isClosed, st.ws, st.reconnectTimer, st.pingTimer, st.armedR, st.armedP>>

\* C1: over every sequence of connect, open, error, close, timer and stop()
\* events at most one socket created by the client is live (created and not yet
\* closed), so connect() creates a socket only after the previous one has
\* delivered its close event.
C1_SingleLiveSocket == Cardinality(Live) <= 1

\* A second socket exists after the first one was closed and the timer fired.
C1_Witness ==
    /\ attempt = 2
    /\ \E s \in SockIds : icm.sock[s] = "connecting"
    /\ last.ev = "timer"

\* C2: once stop() has been called no step makes a connect attempt or creates
\* a socket, whatever event arrives, and the closed flag is never reset.
C2_NoConnectAfterStop ==
    [][/\ stops > 0 =>
            /\ attempt' = attempt
            /\ \A s \in SockIds :
                  icm.sock[s] \in {"none", "closed"} => icm'.sock[s] = icm.sock[s]
       /\ icm.isClosed => icm'.isClosed]_vars

\* The close event of the stopped socket has arrived after stop().
C2_Witness == stops > 0 /\ last.ev = "close"

\* C3: after stop() has returned handleMspBotsMessage is never invoked again.
C3_NoFrameAfterStop == [][stops > 0 => FwdCount' = FwdCount]_vars

\* C4: at most one handleMspBotsMessage invocation is in flight at any time.
C4_OneInvocationInFlight == Cardinality(inflight) <= 1

\* C5: after stop() has returned no reconnect timer and no heartbeat timer is
\* armed, in any later state.
C5_NoTimerAfterStop == stops > 0 => (icm.armedR = {} /\ icm.armedP = {})

\* stop() was called while a connect attempt was in flight, and the aborted
\* socket has reported its error.
C5_Witness ==
    /\ stops > 0
    /\ last.ev = "error"
    /\ \E s \in SockIds : icm.sock[s] = "connecting_err"

\* C6: no call of stop() throws, and after the first stop() nothing, a second
\* stop() included, changes the closed flag, the socket reference or the timers.
C6_StopIdempotent ==
    [][/\ ~icm'.threw
       /\ stops > 0 => ClientFields(icm') = ClientFields(icm)]_vars

\* stop() has been called twice.
C6_Witness == stops = 2 /\ last.ev = "stop"

\* C7 as stated: while the client is not closed, a socket error event as well
\* as a socket close event clears the heartbeat timer and arms the reconnect timer.
C7_ErrorOrCloseSchedulesReconnect ==
    [][(~icm.isClosed /\ last'.ev \in {"error", "close"})
          => (icm'.armedP = {} /\ icm'.armedR # {})]_vars

\* C7 amended: while the client is not closed, a socket close event clears the
\* heartbeat timer and arms one reconnect timer with the fixed delay; a socket
\* error event on its own leaves the timers as they are.
C7_CloseSchedulesReconnect ==
    [][~icm.isClosed =>
          /\ last'.ev = "close" =>
                /\ icm'.armedP = {}
                /\ icm'.armedR = {icm'.reconnectTimer}
                /\ icm'.reconnectDelay = ReconnectDelayMs
                /\ ConnectionState' = "ReconnectPending"
          /\ last'.ev = "error" =>
                /\ icm'.armedR = icm.armedR
                /\ icm'.armedP = icm.armedP]_vars

\* An open socket with its heartbeat timer was closed and the reconnect is pending.
C7_Witness ==
    /\ last.ev = "close"
    /\ ~icm.isClosed
    /\ icm.pingTimer # NULL
    /\ icm.armedR # {}

\* C8: as long as stop() is not called, a client left without a live socket (its
\* socket closed, or new WebSocket failed) eventually makes a new connect attempt.
C8_ReconnectForever ==
    \A k \in 0..(AttemptMod - 1) :
        (started /\ ~icm.isClosed /\ Live = {} /\ attempt = k)
            ~> (attempt # k \/ icm.isClosed)

\* Two sockets were created and closed and the third attempt is pending.
C8_Witness ==
    /\ attempt = 2
    /\ ~icm.isClosed
    /\ Live = {}
    /\ icm.armedR # {}

\* C9 as stated: the reply to a heartbeat request is {"type":"ping"}.
C9_ReplyIsPing ==
    \A i \in Idx : (log[i].k = "send" /\ log[i].n > 0) => log[i].f = "ping"

\* C9 amended: the reply to a heartbeat request is {"type":"pong"}, sent right
\* after the request; the outbound heartbeat of the timer is {"type":"ping"}.
C9_ReplyIsPong ==
    \A i \in Idx :
        log[i].k = "send" =>
            IF log[i].n > 0
            THEN /\ log[i].f = "pong"
                 /\ i > 1
                 /\ log[i - 1] = Recv("ping", log[i].n, log[i - 1].c)
            ELSE log[i].f = "ping"

\* A heartbeat request was answered.
C9_Witness == \E i \in Idx : log[i].k = "send" /\ log[i].n > 0

\* C10: a heartbeat request received while Connected is answered by exactly one
\* reply, which is on the wire before any later frame is received or forwarded.
C10_OneReplyBeforeNextFrame ==
    \A i \in Idx :
        (log[i].k = "recv" /\ log[i].f = "ping" /\ log[i].c) =>
            /\ i < Len(log)
            /\ log[i + 1] = Send("pong", log[i].n)
            /\ Cardinality({j \in Idx : log[j].k = "send" /\ log[j].n = log[i].n}) = 1
            /\ \A j \in Idx : (log[j].k = "fwd") => log[j].n # log[i].n

\* A heartbeat request was answered and a later frame was forwarded.
C10_Witness ==
    \E i, j \in Idx :
        /\ i < j
        /\ log[i].k = "recv" /\ log[i].f = "ping" /\ log[i].c
        /\ log[j].k = "fwd"

\* C11: handleMspBotsMessage is invoked only for frames whose type is neither
\* "ping" nor "connection".
C11_ControlFramesIntercepted ==
    \A i \in Idx : log[i].k = "fwd" => log[i].f \notin {"ping", "connection"}

\* A heartbeat request and a connection acknowledgement were both received.
C11_Witness ==
    \E i, j \in Idx :
        /\ log[i].k = "recv" /\ log[i].f = "ping"
        /\ log[j].k = "recv" /\ log[j].f = "connection"

\* C12: at most one of the heartbeat timer and the reconnect timer is armed.
C12_TimersExclusive == ~(icm.armedP # {} /\ icm.armedR # {})

\* The heartbeat timer is armed on a socket that a reconnect created.
C12_Witness == icm.armedP # {} /\ attempt = 2 /\ icm.reconnectTimer # NULL

\* C13: a heartbeat tick that finds the socket not open makes the client leave
\* Connected for the reconnect path (heartbeat cleared, reconnect armed).
C13_UnsentPingReconnects ==
    [][(last'.ev = "ping" /\ ~icm.isClosed /\ ~IsOpen(icm))
          => (icm'.armedP = {} /\ icm'.armedR # {})]_vars

\* C14: a frame that fails JSON parsing changes nothing of the client, its
\* sockets or its timers, and no handler invocation starts for it.
C14_BadFrameDropped ==
    [][(last'.ev = "message" /\ Len(log') > Len(log)
            /\ log'[Len(log) + 1].f = "bad")
          => /\ icm' = icm
             /\ inflight' = inflight
             /\ log' = Append(log, log'[Len(log) + 1])
             /\ log'[Len(log) + 1].k = "recv"]_vars

\* An unparseable frame was received on the open socket of a live client.
C14_Witness ==
    /\ last.ev = "message"
    /\ log # <<>>
    /\ log[Len(log)] = Recv("bad", log[Len(log)].n, TRUE)

\* C15: the monitor's error listener is registered before connect(), and no
\* error event of any socket surfaces as an exception.
C15_ErrorsConsumed == icm.errorListener /\ ~icm.threw

\* A socket error arrived, also one of a handshake aborted by stop().
C15_Witness == last.ev = "error" /\ stops > 0

----------------------------------------------------------------------------
(* Properties of the configuration sync *)

\* A JSON object as what it denotes: its fields, whatever order they were
\* inserted in, nested objects likewise.
RECURSIVE Fields(_)
Fields(obj) ==
    {[k |-> obj[i].k, isObj |-> obj[i].isObj, n |-> obj[i].n, o |-> Fields(obj[i].o)] :
        i \in 1..Len(obj)}

\* A well-formed (non-empty) remote configuration has been received.
GotRemote == ~sync.remote.isNull

\* The file system as it was when startConfigSync was called.
FsUntouched == sync.fs = NewSync(sync.initFile).fs

\* C16: when the remote configuration has the same fields as the local one,
\* in whatever key order at any depth, startConfigSync ends at once with
\* outcome UpToDate: onSyncComplete is called once, nothing is written to the
\* file system and the restart is not invoked.
C16_EqualMeansUpToDate ==
    (/\ GotRemote
     /\ ~sync.localConfig.isNull
     /\ Fields(sync.localConfig.v) = Fields(sync.remote.v))
        => /\ sync.pc = "returned"
           /\ sync.outcome = "UpToDate"
           /\ sync.completes = 1
           /\ sync.completeArg = sync.localConfig
           /\ sync.errors = 0
           /\ sync.writes = 0
           /\ sync.restarts = 0
           /\ FsUntouched

\* UpToDate for a local and a remote object whose nested keys come in
\* different orders.
C16_Witness ==
    /\ sync.outcome = "UpToDate"
    /\ sync.pc = "returned"
    /\ sync.localConfig.v = <<Node(KA, <<Leaf(KB, 2), Leaf(KA, 1)>>)>>
    /\ sync.remote.v = <<Node(KA, <<Leaf(KA, 1), Leaf(KB, 2)>>)>>

\* The fields of a configuration that the comparison looks at: all but the
\* top-level meta and wizard.
Significant(obj) == {f \in Fields(obj) : f.k \notin {KMeta, KWizard}}

\* The run has returned and the target path holds the remote configuration,
\* put there by one rename.
ReplacedOnce ==
    /\ sync.outcome = "Updated"
    /\ sync.writes = 1
    /\ sync.fs[ConfigPath] = File(StringifyIndent(sync.remote.v))
    /\ sync.fs[tempPath(ConfigPath)] = Absent
    /\ sync.completes = 1
    /\ sync.completeArg = sync.remote

\* C17 as stated: whenever the well-formed remote configuration differs from
\* the local configuration in any field (or there is no local configuration),
\* a run that returns has replaced the local file exactly once with the
\* remote configuration and ended with outcome Updated.
C17_AnyDifferenceUpdates ==
    (/\ GotRemote
     /\ sync.pc = "returned"
     /\ \/ sync.localConfig.isNull
        \/ Fields(sync.localConfig.v) # Fields(sync.remote.v))
        => ReplacedOnce

\* C17: whenever the well-formed remote configuration differs from the local
\* configuration in a field other than the top-level meta and wizard (or there
\* is no local configuration), a run that returns has replaced the local file
\* exactly once with the remote configuration and ended with outcome Updated.
C17_SignificantDifferenceUpdates ==
    (/\ GotRemote
     /\ sync.pc = "returned"
     /\ \/ sync.localConfig.isNull
        \/ Significant(sync.localConfig.v) # Significant(sync.remote.v))
        => ReplacedOnce

\* Updated over an existing local configuration that differs in the value of
\* an ordinary field.
C17_Witness ==
    /\ sync.pc = "returned"
    /\ sync.outcome = "Updated"
    /\ sync.writes = 1
    /\ ~sync.localConfig.isNull
    /\ \E i \in 1..Len(sync.localConfig.v) : sync.localConfig.v[i] = Leaf(KA, 1)
    /\ \E i \in 1..Len(sync.remote.v) : sync.remote.v[i] = Leaf(KA, 2)

\* C18: at every step of writeLocalConfig, a crash inside it included, the
\* target path holds either what it held when startConfigSync was called or
\* the complete text of the remote configuration, never an empty or a cut
\* file.
C18_TargetNeverPartial ==
    \/ sync.fs[ConfigPath] = sync.initFile
    \/ /\ GotRemote
       /\ sync.fs[ConfigPath] = File(StringifyIndent(sync.remote.v))

\* The process died after the temp file was written and before the rename:
\* the temp file is complete and the target still has the old content.
C18_Witness ==
    /\ sync.pc = "crashed"
    /\ sync.fs[tempPath(ConfigPath)] = File(StringifyIndent(sync.remote.v))
    /\ sync.fs[ConfigPath] = sync.initFile
    /\ sync.initFile.exists
    /\ sync.initFile # File(StringifyIndent(sync.remote.v))

\* C19: when every fetch of the run failed at network or transport level
\* (fetchConfigFromApi returned null each time), the run ends by returning,
\* not throwing, after maxRetries fetches with outcome ExhaustedRetries:
\* onSyncError was called exactly once, onSyncComplete never, and the file
\* system is as it was.
C19_ExhaustedOnNetworkFailure ==
    (sync.netOnly /\ sync.pc \in {"returned", "thrown"})
        => /\ sync.pc = "returned"
           /\ sync.outcome = "ExhaustedRetries"
           /\ sync.retryCount = sync.maxRetries
           /\ sync.errors = 1
           /\ sync.completes = 0
           /\ sync.writes = 0
           /\ sync.restarts = 0
           /\ FsUntouched

\* A run with maxRetries supplied as MaxRetries whose fetches all failed at
\* network level has ended, over an existing local file.
C19_Witness ==
    /\ sync.pc = "returned"
    /\ sync.netOnly
    /\ sync.supplied
    /\ sync.maxRetries = MaxRetries
    /\ sync.retryCount = MaxRetries
    /\ sync.errors = 1
    /\ sync.initFile.exists

\* C20: a run whose options do not supply maxRetries never ends with outcome
\* ExhaustedRetries, however many fetches fail.
C20_UnsetNeverExhausts ==
    (sync.pc # "idle" /\ ~sync.supplied) => sync.outcome # "ExhaustedRetries"

\* The responses that are application-level failures: success: false, or
\* success: true with the configuration missing or empty.
AppFailResps == {"fail", "noworker", "noconfigs", "empty"}

\* C21: a fetch that ends in an application-level failure leaves the run
\* where a network failure would have left it: asleep before the next loop
\* test, the attempt spent, nothing written and no outcome; and a run whose
\* last response was such a failure can only have ended with
\* ExhaustedRetries, the file system as it was.
C21_AppFailureRetries ==
    /\ [][(sync.pc = "fetch" /\ sync'.pc # "fetch" /\ sync'.resp \in AppFailResps)
            => /\ [sync' EXCEPT !.resp = "neterr", !.netOnly = sync.netOnly]
                    = onResponse(sync, [kind |-> "neterr", c |-> <<>>])
               /\ sync'.pc = "sleep"
               /\ sync'.retryCount = sync.retryCount
               /\ sync'.retryCount >= 1
               /\ sync'.fs = sync.fs
               /\ sync'.outcome = "none"]_vars
    /\ []((sync.resp \in AppFailResps /\ sync.pc \in {"returned", "thrown"})
            => /\ sync.pc = "returned"
               /\ sync.outcome = "ExhaustedRetries"
               /\ sync.completes = 0
               /\ FsUntouched)

\* The run fetches again after an empty configuration payload.
C21_Witness ==
    /\ sync.pc = "fetch"
    /\ sync.resp = "empty"
    /\ sync.retryCount = 2

\* The run is over: it returned, threw, or the process died.
SyncEnded == sync.pc \in {"returned", "thrown", "crashed"}

\* C22: a run never issues more than maxRetries fetches, and once called it
\* always ends, whatever the endpoint answers, answers that are success: true
\* but malformed or empty included.
C22_TerminatesWithinBudget ==
    /\ [](sync.fetches <= sync.maxRetries)
    /\ (sync.pc = "loop") ~> SyncEnded

\* A run that ended after MaxRetries fetches, each answered success: true with
\* the configuration missing or empty.
C22_Witness ==
    /\ sync.pc = "returned"
    /\ sync.supplied
    /\ sync.fetches = MaxRetries
    /\ sync.maxRetries = MaxRetries
    /\ sync.resp \in {"noworker", "noconfigs", "empty"}
    /\ sync.outcome = "ExhaustedRetries"

\* C23: while attempts are left the loop test starts another fetch and
\* reports nothing, however many attempts failed before; and once a
\* well-formed configuration has arrived, on the last attempt included, the
\* run never reports ExhaustedRetries: if it returns, its outcome is UpToDate
\* or Updated.
C23_FailedAttemptNotTerminal ==
    /\ [][(sync.pc = "loop" /\ sync'.pc # "loop" /\ sync.retryCount < sync.maxRetries)
            => /\ sync'.pc = "fetch"
               /\ sync'.outcome = "none"
               /\ sync'.errors = 0]_vars
    /\ [](GotRemote
            => /\ sync.outcome # "ExhaustedRetries"
               /\ sync.errors = 0
               /\ sync.pc = "returned" => sync.outcome \in {"UpToDate", "Updated"})

\* MaxRetries - 1 attempts failed, the well-formed configuration came on
\* attempt number MaxRetries, and the run ended Updated.
C23_Witness ==
    /\ sync.pc = "returned"
    /\ sync.supplied
    /\ sync.maxRetries = MaxRetries
    /\ sync.fetches = MaxRetries
    /\ GotRemote
    /\ sync.outcome = "Updated"

\* The file at localConfigPath was missing or not JSON when the run began.
NoLocalFile == ~sync.initFile.exists \/ ~Parseable(sync.initFile.text)

\* C24: over a missing or unparseable local file the run starts with no
\* local configuration instead of throwing, never ends UpToDate, and throws
\* only out of the write; if it returns after a well-formed payload, that
\* payload is what the local file now holds and the outcome is Updated.
C24_NoLocalFileForcesUpdate ==
    (NoLocalFile /\ sync.pc # "idle")
        => /\ sync.localConfig.isNull
           /\ sync.outcome # "UpToDate"
           /\ sync.pc = "thrown" => GotRemote
           /\ (GotRemote /\ sync.pc = "returned") => ReplacedOnce

\* Local file absent, remote {"a":1}: Updated, and the file now holds {"a":1}.
C24_Witness ==
    /\ ~sync.initFile.exists
    /\ sync.pc = "returned"
    /\ sync.outcome = "Updated"
    /\ sync.remote.v = <<Leaf(KA, 1)>>
    /\ sync.fs[ConfigPath].exists
    /\ Parse(sync.fs[ConfigPath].text) = <<Leaf(KA, 1)>>

\* The digest configsAreEqual compares: md5 of the text of the sorted object.
CanonDigest(obj) == calculateMd5(Stringify(sortObjectKeys(obj)))

\* C25: for the local and the remote object of a run, sorting the keys twice
\* gives what sorting once gives, and when one object is the other with its
\* keys in another order, at the top or inside a nested object, both have the
\* same digest after sorting.
C25_CanonicalizationStable ==
    (GotRemote /\ ~sync.localConfig.isNull)
        => LET X == sync.localConfig.v
               Y == sync.remote.v
           IN  /\ sortObjectKeys(sortObjectKeys(X)) = sortObjectKeys(X)
               /\ sortObjectKeys(sortObjectKeys(Y)) = sortObjectKeys(Y)
               /\ Fields(X) = Fields(Y) => CanonDigest(X) = CanonDigest(Y)

\* A run compared two objects of two fields each that differ in the order of
\* the top-level keys and in the order of the keys of the nested object.
C25_Witness ==
    /\ GotRemote
    /\ sync.localConfig.v = <<Leaf(KB, 2), Node(KA, <<Leaf(KB, 2), Leaf(KA, 1)>>)>>
    /\ sync.remote.v = <<Node(KA, <<Leaf(KA, 1), Leaf(KB, 2)>>), Leaf(KB, 2)>>

\* C26: a success response that carries a non-empty configuration, be it in
\* worker.configs or as fields at the response root, is resolved to that
\* configuration and ends the polling: the run does not go to sleep for a
\* retry and does not end with ExhaustedRetries on it.
C26_BothShapesResolved ==
    sync.resp \in {"ok", "root"}
        => /\ GotRemote
           /\ sync.pc # "sleep"
           /\ sync.outcome # "ExhaustedRetries"

\* restartGateway has been called.
RestartInvoked == sync.pc = "restarting" \/ sync.restarts > 0

\* C27: restartGateway is called at most once in a run, only with
\* restartAfterSync enabled and only after the rename has put the complete
\* remote configuration at the target path; a run that returns after it has
\* outcome Updated, a run with outcome UpToDate or ExhaustedRetries never
\* called it, and an Updated run calls it exactly when restartAfterSync is
\* enabled.
C27_RestartOnlyOnUpdated ==
    /\ sync.restarts <= 1
    /\ sync.pc = "restarting" => sync.restarts = 0
    /\ RestartInvoked
          => /\ sync.restartAfterSync
             /\ sync.writes = 1
             /\ sync.fs[ConfigPath] = File(StringifyIndent(sync.remote.v))
             /\ sync.outcome \in {"none", "Updated"}
    /\ (RestartInvoked /\ sync.pc = "returned") => sync.outcome = "Updated"
    /\ sync.outcome \in {"UpToDate", "ExhaustedRetries"} => ~RestartInvoked
    /\ (sync.pc = "returned" /\ sync.outcome = "Updated")
          => (sync.restarts = 1 <=> sync.restartAfterSync)

\* An Updated run with restartAfterSync disabled has ended without a restart.
C27_Witness ==
    /\ sync.pc = "returned"
    /\ sync.outcome = "Updated"
    /\ ~sync.restartAfterSync
    /\ sync.restarts = 0
    /\ sync.writes = 1

\* C28: when the restart command fails after an update, the run still
\* returns, it does not throw: onSyncComplete has been called once with the
\* new configuration, the outcome is Updated and the target path holds the
\* new configuration.
C28_RestartFailureHarmless ==
    sync.restartFailed
        => /\ sync.pc = "returned"
           /\ sync.restarts = 1
           /\ sync.errors = 0
           /\ ReplacedOnce

\* The restart command failed over a local file that was replaced.
C28_Witness ==
    /\ sync.restartFailed
    /\ sync.pc = "returned"
    /\ sync.initFile.exists
    /\ sync.fs[ConfigPath] # sync.initFile

\* C29: a failure of a file-system call of writeLocalConfig ends the run with
\* a thrown error, and nothing else does: the target path then holds what it
\* held when the run began, restartGateway was not called, onSyncComplete and
\* onSyncError were not called and no outcome is reported.
C29_WriteFailureThrown ==
    /\ sync.fsFailed
          => /\ sync.pc = "thrown"
             /\ sync.fs[ConfigPath] = sync.initFile
             /\ sync.writes = 0
             /\ ~RestartInvoked
             /\ sync.completes = 0
             /\ sync.errors = 0
             /\ sync.outcome = "none"
    /\ sync.pc = "thrown" => sync.fsFailed

\* The write failed with the temp file already on disk, over an existing
\* local file.
C29_Witness ==
    /\ sync.fsFailed
    /\ sync.pc = "thrown"
    /\ sync.initFile.exists
    /\ sync.fs[tempPath(ConfigPath)] = File(StringifyIndent(sync.remote.v))

----------------------------------------------------------------------------
(* Properties of the plugin start-up *)

\* C30: in register() the runtime is set and the channel registered only
\* when startConfigSync has returned or thrown, and the connection manager
\* is started only through the registered channel: no connect() is made
\* while a run of startConfigSync is in progress.
C30_SyncBeforeStart ==
    /\ (plugin.runtime \/ plugin.channel) => sync.pc \in {"returned", "thrown"}
    /\ started => (plugin.channel /\ sync.pc \in {"returned", "thrown"})
    /\ ~started => Live = {}

\* The connection manager has been started after a run that replaced the
\* configuration file.
C30_Witness ==
    /\ started
    /\ sync.outcome = "Updated"
    /\ plugin.pc = "registered"

\* C31: whatever way startConfigSync ends, by returning with UpToDate,
\* Updated or ExhaustedRetries or by throwing a write error, register() does
\* not throw and goes on to set the runtime and register the channel.
C31_SyncFailureNeverBlocksStart ==
    /\ [](plugin.pc \in {"loaded", "syncing", "registered"})
    /\ [][(plugin.pc = "syncing" /\ plugin' # plugin)
            => /\ plugin'.pc = "registered"
               /\ plugin'.runtime
               /\ plugin'.channel]_vars
    /\ (sync.pc \in {"returned", "thrown"})
          ~> (plugin.pc = "registered" /\ plugin.runtime /\ plugin.channel)

\* The channel is registered after a run that threw a write error.
C31_Witness ==
    /\ plugin.pc = "registered"
    /\ plugin.channel
    /\ sync.pc = "thrown"
    /\ sync.fsFailed

----------------------------------------------------------------------------
(* Further properties of the configuration sync *)

\* C32: after a run that returned Updated the target file, read back, is the
\* remote object and nothing else: all its fields, none of the local ones;
\* after a run that ended in any other way the target file is what it was
\* when the run began.
C32_ReplacedWholesale ==
    /\ (sync.pc = "returned" /\ sync.outcome = "Updated")
          => /\ sync.fs[ConfigPath].exists
             /\ SkipSpace(sync.fs[ConfigPath].text) = Stringify(sync.remote.v)
    /\ (sync.pc \in {"returned", "thrown"} /\ sync.outcome # "Updated")
          => sync.fs[ConfigPath] = sync.initFile

\* Updated over a local file with a field "b" the remote object lacks: the
\* new file has the remote field "a" only.
C32_Witness ==
    /\ sync.pc = "returned"
    /\ sync.outcome = "Updated"
    /\ sync.localConfig.v = <<Leaf(KA, 1), Leaf(KB, 2)>>
    /\ sync.remote.v = <<Leaf(KA, 2)>>
    /\ sync.fs[ConfigPath] = File(<<-1, 0, 10 + KA, 100 + 2, 0, -2>>)

\* C33: a run never has more than one fetch outstanding, a fetch is issued
\* only when every earlier one has been answered and slept on, one full sleep
\* per earlier fetch, and a run that exhausted its N attempts has completed
\* at least N - 1 sleeps.
C33_SequentialAttempts ==
    /\ sync.fetches - sync.answered \in {0, 1}
    /\ sync.pc = "fetch" <=> sync.fetches - sync.answered = 1
    /\ sync.pc = "fetch" => sync.sleeps = sync.fetches - 1
    /\ sync.outcome = "ExhaustedRetries"
          => /\ sync.fetches = sync.maxRetries
             /\ sync.sleeps >= sync.maxRetries - 1

\* The run is in its second fetch, after one answered fetch and one sleep.
C33_Witness ==
    /\ sync.pc = "fetch"
    /\ sync.fetches = 2
    /\ sync.answered = 1
    /\ sync.sleeps = 1

\* C34: when the local and the remote configuration have the same fields
\* apart from the top-level meta and wizard, the run ends up to date:
\* onSyncComplete is called with the local configuration, nothing is written
\* and restartGateway is not called.
C34_MetaWizardIgnored ==
    (/\ GotRemote
     /\ ~sync.localConfig.isNull
     /\ Significant(sync.localConfig.v) = Significant(sync.remote.v))
        => /\ sync.pc = "returned"
           /\ sync.outcome = "UpToDate"
           /\ sync.completeArg = sync.localConfig
           /\ sync.writes = 0
           /\ ~RestartInvoked
           /\ FsUntouched

\* UpToDate for a local {"a":1,"meta":1} against a remote
\* {"wizard":2,"a":1}.
C34_Witness ==
    /\ sync.pc = "returned"
    /\ sync.outcome = "UpToDate"
    /\ sync.localConfig.v = <<Leaf(KA, 1), Leaf(KMeta, 1)>>
    /\ sync.remote.v = <<Leaf(KWizard, 2), Leaf(KA, 1)>>

\* C37: the run renames a file onto the target path at most once; the file
\* system is touched only after an attempt whose response was well formed and
\* non-empty and differed from the local configuration in a field other than
\* the top-level meta and wizard (or no local configuration was read); while
\* the run is fetching, sleeping or testing its loop, and when it ends with
\* ExhaustedRetries, the file system is as it was at the call.
C37_WriteOnlyOnDifference ==
    /\ sync.writes <= 1
    /\ ~FsUntouched
          => /\ GotRemote
             /\ sync.resp = "ok"
             /\ sync.remote.v # <<>>
             /\ \/ sync.localConfig.isNull
                \/ Significant(sync.localConfig.v) # Significant(sync.remote.v)
    /\ sync.pc \in {"idle", "loop", "fetch", "sleep"} => FsUntouched
    /\ sync.outcome = "ExhaustedRetries" => FsUntouched

\* The second attempt, after a retry, replaced the file.
C37_Witness ==
    /\ sync.pc = "returned"
    /\ sync.fetches = 2
    /\ sync.sleeps = 1
    /\ sync.writes = 1
    /\ sync.fs[ConfigPath] # sync.initFile

\* C38: a run that has returned has called exactly one of onSyncComplete and
\* onSyncError, once: onSyncComplete when the outcome is UpToDate or Updated,
\* onSyncError when it is ExhaustedRetries.
C38_ExactlyOneCallback ==
    sync.pc = "returned"
        => /\ sync.completes + sync.errors = 1
           /\ sync.outcome \in {"UpToDate", "Updated", "ExhaustedRetries"}
           /\ sync.outcome \in {"UpToDate", "Updated"} <=> sync.completes = 1
           /\ sync.outcome = "ExhaustedRetries" <=> sync.errors = 1

\* A run that used up its attempts on network failures and called onSyncError.
C38_Witness ==
    /\ sync.pc = "returned"
    /\ sync.outcome = "ExhaustedRetries"
    /\ sync.netOnly
    /\ sync.errors = 1
    /\ sync.completes = 0

----------------------------------------------------------------------------
(* Further properties of the client's timers *)

\* C35: at most one reconnect timer is pending, and it is the one held in
\* this.reconnectTimer; a call of scheduleReconnect() on an open client leaves
\* exactly the timer it arms, whatever was armed before; a connect() that
\* creates a socket runs while no socket is live and leaves no timer pending,
\* so a socket failure is followed by at most one connect().
C35_SingleReconnectTimer ==
    /\ [](/\ Cardinality(icm.armedR) <= 1
          /\ icm.armedR \subseteq {icm.reconnectTimer}
          /\ icm.armedR # {} => Live = {}
          /\ ~icm.isClosed =>
                scheduleReconnect(icm).armedR = {scheduleReconnect(icm).reconnectTimer})
    /\ [][attempt' # attempt => (Live = {} /\ icm'.armedR = {})]_vars

\* The socket of an open client has just closed: one timer is pending.
C35_Witness ==
    /\ last.ev = "close"
    /\ Cardinality(icm.armedR) = 1
    /\ ~icm.isClosed
    /\ \E s \in SockIds : icm.sock[s] = "closed"

\* C36: at most one heartbeat interval is armed, and it is the one held in
\* this.pingTimer.
C36_SingleHeartbeatTimer ==
    /\ Cardinality(icm.armedP) <= 1
    /\ icm.armedP \subseteq {icm.pingTimer}

\* The socket of the client's second connection attempt has just opened: one
\* heartbeat interval is armed.
C36_Witness ==
    /\ last.ev = "open"
    /\ attempt = 2
    /\ Cardinality(icm.armedP) = 1
    /\ icm.ws # NULL
    /\ icm.sock[icm.ws] = "open"

----------------------------------------------------------------------------
(* Properties of the frame handler *)

\* C39: getMspBotsRuntime() throws until the runtime is set; register() has set
\* it whenever the channel is registered; the account's client is started only
\* for a registered channel and delivers no frame before; so every invocation
\* of handleMspBotsMessage finds the runtime set.
C39_RuntimeSetBeforeFrames ==
    /\ [](/\ ~getMspBotsRuntime(NewPlugin)
          /\ plugin.channel => getMspBotsRuntime(plugin)
          /\ started => plugin.channel
          /\ log # <<>> => started)
    /\ [][FwdCount' > FwdCount => getMspBotsRuntime(plugin)]_vars

\* After a sync that ended, the account's client has handed a frame to
\* handleMspBotsMessage, which is awaiting its dispatch.
C39_Witness ==
    /\ sync.pc \in {"returned", "thrown"}
    /\ plugin.pc = "registered"
    /\ plugin.runtime
    /\ FwdCount > 0
    /\ inflight # {}

\* C40: a step that hands a frame with a missing or empty data field to
\* handleMspBotsMessage starts no dispatch and changes nothing in the client.
C40_EmptyDataDropped ==
    [][(/\ Len(log') > Len(log)
        /\ log'[Len(log')].k = "fwd"
        /\ log'[Len(log')].f = "nodata")
          => /\ inflight' = inflight
             /\ icm' = icm]_vars

\* The latest frame handed to the handler had no data, and no dispatch runs.
C40_Witness ==
    /\ log # <<>>
    /\ log[Len(log)].k = "fwd"
    /\ log[Len(log)].f = "nodata"
    /\ inflight = {}


============================================================================
